---- MODULE Spec2Model ----
(***************************************************************************)
(* Model of OnceInit<T> (src/src/lib.rs): a write-once cell made of an     *)
(* atomic state tag and a slot holding Option<&'static T>.                 *)
(*                                                                         *)
(* Every atomic access of `state` (load, compare_exchange, store) and      *)
(* every access of the slot is one step of the calling thread; the steps   *)
(* of different threads interleave.  A call begins with its first atomic   *)
(* access, and its return is a step of its own, so that "a call that       *)
(* starts after ..." and "a call that returns after ..." are different     *)
(* things in the model, as they are in the program.  All writes of `state` *)
(* are SeqCst and there is one atomic only, so the interleaving of its     *)
(* accesses is its modification order.                                     *)
(***************************************************************************)
EXTENDS Integers, Sequences, FiniteSets, TLC

\* ---- bounds of the model ----
NumThreads == 2
\* calls recorded in the trace of a run
MaxTrace == 4
NumValues == 2

Threads == 1..NumThreads
\* the thread that runs first, before any other thread uses the cell
MainThread == 1

\* ---- lib.rs:72-74 ----
UNINITIALIZED == 0
INITIALIZING == 1
INITIALIZED == 2

\* &'static T values: 0 is the object StaticDefault::static_default()
\* returns, 1..NumValues are the objects callers pass to init/init_boxed.
StaticDefaultRef == 0
Values == 1..NumValues
Refs == {StaticDefaultRef} \cup Values
\* what a read through a dangling/invalid reference may yield
Garbage == -1
NoArg == -2

\* Option<&'static T>
None == << >>
Some(v) == << v >>

DerefOps == {"get_or_default", "deref"}
GetOps == {"get"} \cup DerefOps
InitOps == {"init", "init_boxed"}
Ops == GetOps \cup InitOps \cup {"state"}

\* results of calls
NoRes == [tag |-> "None", val |-> NoArg, dflt |-> FALSE]
Ok(v) == [tag |-> "Ok", val |-> v, dflt |-> FALSE]
OkUnit == [tag |-> "Ok", val |-> NoArg, dflt |-> FALSE]
Err(e) == [tag |-> e, val |-> NoArg, dflt |-> FALSE]
DataUninitialized == Err("DataUninitialized")
DataInitialized == Err("DataInitialized")
StateRes(s) == [tag |-> "State", val |-> s, dflt |-> FALSE]
RefRes(v, d) == [tag |-> "Ref", val |-> v, dflt |-> d]

VARIABLES
    state,      \* OnceInit::state, the AtomicUsize
    data,       \* OnceInit::data, the slot
    pc,         \* pc[t]: where thread t is inside its current call
    op,         \* op[t]: the operation thread t is executing
    arg,        \* arg[t]: the reference passed to init/init_boxed
    old_state,  \* old_state[t]: value read by the first atomic access of the call
    res,        \* res[t]: the result the current call is about to return
    made,       \* history: the executions of `*data = Some(make_data())`
    okInits,    \* history: the arguments of the init calls that returned Ok(())
    initFailed, \* history: an init call has returned Err(DataInitialized)
    gotOk,      \* history: the references get() has returned
    solo,       \* history: only the main thread has made calls so far
    trace,      \* history: the first calls of the main thread, while it is alone
    built       \* history: Some(v) for a cell made by OnceInit::new(v), else None

vars == << state, data, pc, op, arg, old_state, res, made, okInits,
          initFailed, gotOk, solo, trace, built >>

\* OnceInit::uninit()
Init ==
    /\ state = UNINITIALIZED
    /\ data = None
    /\ pc = [t \in Threads |-> "idle"]
    /\ op = [t \in Threads |-> "none"]
    /\ arg = [t \in Threads |-> NoArg]
    /\ old_state = [t \in Threads |-> UNINITIALIZED]
    /\ res = [t \in Threads |-> NoRes]
    /\ made = << >>
    /\ okInits = << >>
    /\ initFailed = FALSE
    /\ gotOk = {}
    /\ solo = TRUE
    /\ trace = << >>
    /\ built = None

\* thread t, idle, calls operation o with argument v: the frame of the call
Frame(t, o, v) ==
    /\ pc[t] = "idle"
    /\ op' = [op EXCEPT ![t] = o]
    /\ arg' = [arg EXCEPT ![t] = v]
    /\ IF t # MainThread
       THEN solo' = FALSE /\ trace' = << >>
       ELSE UNCHANGED << solo, trace >>
    /\ UNCHANGED << okInits, initFailed, gotOk, built >>

\* what a call asks of the cell: deref is a call of get_or_default, and
\* init_boxed is init on the reference Box::leak yields
Kind(o) ==
    IF o = "deref" THEN "get_or_default"
    ELSE IF o = "init_boxed" THEN "init"
    ELSE o

\* the call of thread t returns r: its frame is gone, its outcome is history
Return(t, r) ==
    /\ pc' = [pc EXCEPT ![t] = "idle"]
    /\ op' = [op EXCEPT ![t] = "none"]
    /\ arg' = [arg EXCEPT ![t] = NoArg]
    /\ old_state' = [old_state EXCEPT ![t] = UNINITIALIZED]
    /\ res' = [res EXCEPT ![t] = NoRes]
    /\ okInits' = IF op[t] \in InitOps /\ r = OkUnit
                  THEN Append(okInits, arg[t]) ELSE okInits
    /\ initFailed' = (initFailed \/ (op[t] \in InitOps /\ r = DataInitialized))
    /\ gotOk' = IF op[t] = "get" /\ r.tag = "Ok"
                THEN gotOk \cup {r.val} ELSE gotOk
    /\ trace' = IF solo /\ Len(trace) < MaxTrace
                THEN Append(trace, [op |-> Kind(op[t]), arg |-> arg[t], res |-> r])
                ELSE trace
    /\ UNCHANGED << state, data, made, solo, built >>

\* ---- OnceInit::get ----
\* variant: the Uninitialized arm is missing and the slot is read anyway
GetBranch_Unchecked(s) ==
    IF s = INITIALIZING THEN "get_spin" ELSE "get_read"

\* variant: the Initialized arm goes through the wait loop as well
GetBranch_SpinAlways(s) ==
    IF s = UNINITIALIZED THEN "get_ret" ELSE "get_spin"

\* variant: there is no Initializing arm, a cell being initialized counts as
\* not initialized
GetBranch_NoSpin(s) ==
    IF s = INITIALIZED THEN "get_read" ELSE "get_ret"

\* the arm of `match self.state.load(Acquire)` taken for the loaded value
GetBranch(s) ==
    IF s = INITIALIZED THEN "get_read"
    ELSE IF s = INITIALIZING THEN "get_spin"
    ELSE "get_ret"

\* a thread calls get, get_or_default or deref (which is get_or_default):
\* the call and its `self.state.load(Acquire)`
CallGet(t) ==
    /\ \E o \in GetOps : Frame(t, o, NoArg)
    /\ old_state' = [old_state EXCEPT ![t] = state]
    /\ pc' = [pc EXCEPT ![t] = GetBranch(state)]
    /\ res' = [res EXCEPT ![t] =
                 IF GetBranch(state) = "get_ret" THEN DataUninitialized ELSE @]
    /\ UNCHANGED << state, data, made >>

\* variant: the loop does not wait
SpinExit_NoWait(s) == TRUE

\* one evaluation of `while self.state.load(SeqCst) == INITIALIZING`
SpinExit(s) == s # INITIALIZING

GetSpin(t) ==
    /\ pc[t] = "get_spin"
    /\ pc' = [pc EXCEPT ![t] = IF SpinExit(state) THEN "get_read" ELSE @]
    /\ UNCHANGED << state, data, op, arg, old_state, res, made, okInits, initFailed, gotOk, solo, trace, built >>

\* (*self.data.get()).unwrap_unchecked(): the values it may yield.  On None
\* the behaviour is undefined: any reference, valid or not.
UnwrapUnchecked(o) ==
    IF o # None THEN {o[1]} ELSE Refs \cup {Garbage}

GetRead(t) ==
    /\ pc[t] = "get_read"
    /\ \E v \in UnwrapUnchecked(data) :
        res' = [res EXCEPT ![t] = Ok(v)]
    /\ pc' = [pc EXCEPT ![t] = "get_ret"]
    /\ UNCHANGED << state, data, op, arg, old_state, made, okInits, initFailed, gotOk, solo, trace, built >>

\* variant: the result of get is ignored
UnwrapOrDefault_Always(r) == RefRes(StaticDefaultRef, TRUE)

\* self.get().unwrap_or_else(|_| T::static_default())
UnwrapOrDefault(r) ==
    IF r.tag = "Ok" THEN RefRes(r.val, FALSE)
    ELSE RefRes(StaticDefaultRef, TRUE)

\* get returns to the caller of get
GetRet(t) ==
    /\ pc[t] = "get_ret"
    /\ op[t] = "get"
    /\ Return(t, res[t])

\* variant: get_or_default installs the fallback in the cell
GetOrDefault_Caching(t) ==
    /\ pc[t] = "get_ret"
    /\ op[t] \in DerefOps
    /\ res' = [res EXCEPT ![t] = UnwrapOrDefault(@)]
    /\ pc' = [pc EXCEPT ![t] = "default_ret"]
    /\ IF res[t].tag # "Ok" /\ state = UNINITIALIZED
       THEN state' = INITIALIZED /\ data' = Some(StaticDefaultRef)
       ELSE UNCHANGED << state, data >>
    /\ UNCHANGED << op, arg, old_state, made, okInits, initFailed, gotOk, solo, trace, built >>

\* get returns into get_or_default (called directly or by deref), which
\* evaluates unwrap_or_else on its result
GetOrDefault(t) ==
    /\ pc[t] = "get_ret"
    /\ op[t] \in DerefOps
    /\ res' = [res EXCEPT ![t] = UnwrapOrDefault(@)]
    /\ pc' = [pc EXCEPT ![t] = "default_ret"]
    /\ UNCHANGED << state, data, op, arg, old_state, made, okInits, initFailed, gotOk, solo, trace, built >>

\* get_or_default, or deref, returns
GetOrDefaultRet(t) ==
    /\ pc[t] = "default_ret"
    /\ Return(t, res[t])

\* ---- OnceInit::state ----
\* what state() reports once its spin loop has ended
StateAfterSpin == UNINITIALIZED

StateBranch(s) ==
    IF s = INITIALIZING THEN "state_spin" ELSE "state_ret"

\* a thread calls state(): the call and its `self.state.load(Acquire)`
CallState(t) ==
    /\ Frame(t, "state", NoArg)
    /\ old_state' = [old_state EXCEPT ![t] = state]
    /\ pc' = [pc EXCEPT ![t] = StateBranch(state)]
    /\ res' = [res EXCEPT ![t] =
                 IF StateBranch(state) = "state_ret" THEN StateRes(state) ELSE @]
    /\ UNCHANGED << state, data, made >>

StateSpin(t) ==
    /\ pc[t] = "state_spin"
    /\ IF SpinExit(state)
       THEN /\ pc' = [pc EXCEPT ![t] = "state_ret"]
            /\ res' = [res EXCEPT ![t] = StateRes(StateAfterSpin)]
       ELSE UNCHANGED << pc, res >>
    /\ UNCHANGED << state, data, op, arg, old_state, made, okInits, initFailed, gotOk, solo, trace, built >>

StateRet(t) ==
    /\ pc[t] = "state_ret"
    /\ Return(t, res[t])

\* ---- OnceInit::init_internal ----
\* variant: the state is read but not exchanged
CompareExchange_LoadOnly(cur) == cur

\* compare_exchange(UNINITIALIZED, INITIALIZING): the value it leaves
CompareExchange(cur) ==
    IF cur = UNINITIALIZED THEN INITIALIZING ELSE cur

\* variant: the Initialized arm is missing
InitBranch_Reinit(s) ==
    IF s = INITIALIZING THEN "init_spin" ELSE "init_write"

\* variant: the Initializing arm is missing
InitBranch_NoWait(s) ==
    IF s = INITIALIZED THEN "init_ret" ELSE "init_write"

\* the arm of `match old_state` taken
InitBranch(s) ==
    IF s = INITIALIZING THEN "init_spin"
    ELSE IF s = INITIALIZED THEN "init_ret"
    ELSE "init_write"

\* variant: the value is produced (the Box leaked) before the
\* compare_exchange, whatever its outcome
CallInit_Eager(t) ==
    /\ \E o \in InitOps, v \in Values : Frame(t, o, v)
    /\ old_state' = [old_state EXCEPT ![t] = state]
    /\ state' = CompareExchange(state)
    /\ pc' = [pc EXCEPT ![t] = InitBranch(state)]
    /\ res' = [res EXCEPT ![t] =
                 IF InitBranch(state) = "init_ret" THEN DataInitialized ELSE @]
    /\ made' = Append(made, [op |-> op'[t], val |-> arg'[t], cas |-> state,
                             state |-> state, was |-> data])
    /\ UNCHANGED data

\* a thread calls init(v) or init_boxed(Box(v)): the call and the
\* compare_exchange of init_internal
CallInit(t) ==
    /\ \E o \in InitOps, v \in Values : Frame(t, o, v)
    /\ old_state' = [old_state EXCEPT ![t] = state]
    /\ state' = CompareExchange(state)
    /\ pc' = [pc EXCEPT ![t] = InitBranch(state)]
    /\ res' = [res EXCEPT ![t] =
                 IF InitBranch(state) = "init_ret" THEN DataInitialized ELSE @]
    /\ UNCHANGED << data, made >>

InitSpin(t) ==
    /\ pc[t] = "init_spin"
    /\ IF SpinExit(state)
       THEN /\ pc' = [pc EXCEPT ![t] = "init_ret"]
            /\ res' = [res EXCEPT ![t] = DataInitialized]
       ELSE UNCHANGED << pc, res >>
    /\ UNCHANGED << state, data, op, arg, old_state, made, okInits, initFailed, gotOk, solo, trace, built >>

\* make_data(): `|| data` for init, `|| Box::leak(data)` for init_boxed;
\* either way the reference to the caller's object
MakeData(t) == arg[t]

\* variant: Initialized is stored where the slot should be written
InitWrite_PublishFirst(t) ==
    /\ pc[t] = "init_write"
    /\ state' = INITIALIZED
    /\ pc' = [pc EXCEPT ![t] = "init_store"]
    /\ UNCHANGED << data, op, arg, old_state, res, made, okInits, initFailed, gotOk, solo, trace, built >>

\* *self.data.get() = Some(make_data())
InitWrite(t) ==
    /\ pc[t] = "init_write"
    /\ data' = Some(MakeData(t))
    /\ made' = Append(made, [op |-> op[t], val |-> MakeData(t),
                             cas |-> old_state[t], state |-> state,
                             was |-> data])
    /\ pc' = [pc EXCEPT ![t] = "init_store"]
    /\ UNCHANGED << state, op, arg, old_state, res, okInits, initFailed, gotOk, solo, trace, built >>

\* variant: the call returns Ok(()) without storing Initialized
InitStore_NoPublish(t) ==
    /\ pc[t] = "init_store"
    /\ res' = [res EXCEPT ![t] = OkUnit]
    /\ pc' = [pc EXCEPT ![t] = "init_ret"]
    /\ UNCHANGED << state, data, op, arg, old_state, made, okInits, initFailed, gotOk, solo, trace, built >>

\* self.state.store(INITIALIZED, SeqCst); Ok(())
InitStore(t) ==
    /\ pc[t] = "init_store"
    /\ state' = INITIALIZED
    /\ res' = [res EXCEPT ![t] = OkUnit]
    /\ pc' = [pc EXCEPT ![t] = "init_ret"]
    /\ UNCHANGED << data, op, arg, old_state, made, okInits, initFailed, gotOk, solo, trace, built >>

InitRet(t) ==
    /\ pc[t] = "init_ret"
    /\ Return(t, res[t])

Next ==
    \E t \in Threads :
        \/ CallGet(t)
        \/ GetSpin(t)
        \/ GetRead(t)
        \/ GetRet(t)
        \/ GetOrDefault(t)
        \/ GetOrDefaultRet(t)
        \/ CallState(t)
        \/ StateSpin(t)
        \/ StateRet(t)
        \/ CallInit(t)
        \/ InitSpin(t)
        \/ InitWrite(t)
        \/ InitStore(t)
        \/ InitRet(t)

Spec == Init /\ [][Next]_vars

\* thread t takes the next step of the call it is executing
Continue(t) ==
    \/ GetSpin(t)
    \/ GetRead(t)
    \/ GetRet(t)
    \/ GetOrDefault(t)
    \/ GetOrDefaultRet(t)
    \/ StateSpin(t)
    \/ StateRet(t)
    \/ InitSpin(t)
    \/ InitWrite(t)
    \/ InitStore(t)
    \/ InitRet(t)

\* every thread that is inside a call is scheduled again and again: a step
\* of its call that stays possible is eventually taken
FairSpec == Spec /\ \A t \in Threads : WF_vars(Continue(t))

\* variant: the constructor fills the slot and leaves the state at its default
InitNew_StateUnset ==
    \E v \in Refs :
        /\ state = UNINITIALIZED
        /\ data = Some(v)
        /\ pc = [t \in Threads |-> "idle"]
        /\ op = [t \in Threads |-> "none"]
        /\ arg = [t \in Threads |-> NoArg]
        /\ old_state = [t \in Threads |-> UNINITIALIZED]
        /\ res = [t \in Threads |-> NoRes]
        /\ made = << >>
        /\ okInits = << >>
        /\ initFailed = FALSE
        /\ gotOk = {}
        /\ solo = TRUE
        /\ trace = << >>
        /\ built = Some(v)

\* OnceInit::new(v), for a reference v to an object of the caller or, as in
\* Default::default(), for T::static_default()
InitNew ==
    \E v \in Refs :
        /\ state = INITIALIZED
        /\ data = Some(v)
        /\ pc = [t \in Threads |-> "idle"]
        /\ op = [t \in Threads |-> "none"]
        /\ arg = [t \in Threads |-> NoArg]
        /\ old_state = [t \in Threads |-> UNINITIALIZED]
        /\ res = [t \in Threads |-> NoRes]
        /\ made = << >>
        /\ okInits = << >>
        /\ initFailed = FALSE
        /\ gotOk = {}
        /\ solo = TRUE
        /\ trace = << >>
        /\ built = Some(v)

\* a cell made by any of its constructors: uninit(), new(v) or default()
SpecNew == (Init \/ InitNew) /\ [][Next]_vars

TypeOK ==
    /\ state \in {UNINITIALIZED, INITIALIZING, INITIALIZED}
    /\ data \in {None} \cup {Some(v) : v \in Refs}
    /\ Len(trace) <= MaxTrace
    /\ Len(made) <= 1
    /\ built \in {None} \cup {Some(v) : v \in Refs}

\* ---- vocabulary of the properties ----
InFlight(t) == pc[t] # "idle"
Running(ops) == {t \in Threads : InFlight(t) /\ op[t] \in ops}

\* thread t begins a call in this step
Calls(t) == pc[t] = "idle" /\ pc'[t] # "idle"

\* some thread takes a step of a call of one of the operations `ops`
StepOf(ops) ==
    \E t \in Threads :
        /\ << pc[t], res[t] >> # << pc'[t], res'[t] >>
        /\ op[t] \in ops \/ op'[t] \in ops

\* the running init calls whose compare_exchange succeeded
Winning == {t \in Running(InitOps) : old_state[t] = UNINITIALIZED}

\* the arguments of the init calls whose compare_exchange succeeded
WinnerArgs ==
    {arg[t] : t \in Winning} \cup {okInits[i] : i \in DOMAIN okInits}

\* C1: of the init/init_boxed calls made on one cell created by uninit(), at
\* most one returns Ok(()), every other one returns Err(DataInitialized), and
\* once one has failed and none is running exactly one has returned Ok(()).
C1_ExactlyOneInitSucceeds ==
    /\ Len(okInits) <= 1
    /\ \A t \in Running(InitOps) :
        pc[t] = "init_ret" => res[t] \in {OkUnit, DataInitialized}
    /\ initFailed => Len(okInits) + Cardinality(Winning) = 1
    /\ (initFailed /\ Running(InitOps) = {}) => Len(okInits) = 1

\* two init calls have raced: the loser has returned Err(DataInitialized)
\* and the winner is about to return Ok(())
C1_Witness ==
    /\ initFailed
    /\ okInits = << >>
    /\ \E t \in Winning : pc[t] = "init_ret" /\ res[t] = OkUnit

\* C2 as stated: once a get() has returned Ok(v), every get() that returns
\* afterwards returns Ok(v), and v is the value of the init that succeeded.
C2_EveryLaterReturnIsOk ==
    \A t \in Running({"get"}) :
        (pc[t] = "get_ret" /\ gotOk # {}) =>
            /\ res[t].tag = "Ok"
            /\ gotOk = {res[t].val}
            /\ WinnerArgs = {res[t].val}

\* C2 amended: once a get() has returned Ok(v), every get() that begins
\* afterwards finds the cell Initialized and returns Ok(v); all get() calls
\* that return Ok return the same v, the value passed by the one init call
\* that succeeds.
C2_EveryLaterCallIsOk ==
    /\ [](\A v \in gotOk : gotOk = {v} /\ WinnerArgs = {v})
    /\ [][\A t \in Threads :
            (Calls(t) /\ op'[t] = "get" /\ gotOk # {}) =>
                old_state'[t] = INITIALIZED /\ pc'[t] = "get_read"]_vars
    /\ [](\A t \in Running({"get"}) :
            /\ old_state[t] = INITIALIZED => pc[t] \in {"get_read", "get_ret"}
            /\ pc[t] = "get_read" => data # None /\ gotOk \subseteq {data[1]}
            /\ (pc[t] = "get_ret" /\ old_state[t] # UNINITIALIZED) =>
                /\ res[t].tag = "Ok"
                /\ gotOk \subseteq {res[t].val}
                /\ WinnerArgs = {res[t].val})

\* after one get() has returned Ok another get() is about to, while the init
\* call that lost the race with a different value has not returned yet
C2_Witness ==
    /\ gotOk # {}
    /\ \E t \in Running({"get"}) : pc[t] = "get_ret" /\ res[t].tag = "Ok"
    /\ \E u \in Running(InitOps) :
        old_state[u] = INITIALIZING /\ arg[u] \notin gotOk

\* the result of the j-th call of the main thread's trace as the calls
\* before it determine it: the first init wins and its value stays
SeqInits(j) == {i \in 1..(j - 1) : trace[i].op = "init"}
SeqFirst(j) == CHOOSE i \in SeqInits(j) : \A k \in SeqInits(j) : i <= k
SeqRes(j) ==
    IF trace[j].op = "init"
    THEN IF SeqInits(j) = {} THEN OkUnit ELSE DataInitialized
    ELSE IF SeqInits(j) = {} THEN DataUninitialized
    ELSE Ok(trace[SeqFirst(j)].arg)

\* C3: an init/init_boxed call that begins after an init has returned Ok(())
\* returns Err(DataInitialized) and changes neither the state tag nor the
\* slot, which from that return on hold Initialized and that init's value;
\* calls made one after the other give get -> Err(DataUninitialized) before
\* the first init, that init -> Ok(()), every later init ->
\* Err(DataInitialized) and every later get -> Ok(the first init's value).
C3_LaterInitFails ==
    /\ [][\A t \in Threads :
            (Calls(t) /\ op'[t] \in InitOps /\ okInits # << >>) =>
                /\ pc'[t] = "init_ret" /\ res'[t] = DataInitialized
                /\ state' = state /\ data' = data]_vars
    /\ [](okInits # << >> =>
            state = INITIALIZED /\ data = Some(okInits[1]))
    /\ [][okInits # << >> => (state' = state /\ data' = data)]_vars
    /\ [](\A j \in DOMAIN trace :
            trace[j].op \in {"init", "get"} => trace[j].res = SeqRes(j))

\* uninit, get, init(1), init(2), get have run one after the other
C3_Witness ==
    trace = << [op |-> "get", arg |-> NoArg, res |-> DataUninitialized],
               [op |-> "init", arg |-> 1, res |-> OkUnit],
               [op |-> "init", arg |-> 2, res |-> DataInitialized],
               [op |-> "get", arg |-> NoArg, res |-> Ok(1)] >>

\* C4: a get() whose load observes Uninitialized returns
\* Err(DataUninitialized) without entering the spin loop, a state() whose
\* load observes Uninitialized returns UNINITIALIZED, and no step of a get()
\* or state() call changes the state tag or the slot.
C4_UninitializedReads ==
    /\ [](\A t \in Running({"get"}) :
            old_state[t] = UNINITIALIZED =>
                pc[t] = "get_ret" /\ res[t] = DataUninitialized)
    /\ [](\A t \in Running({"state"}) :
            old_state[t] = UNINITIALIZED =>
                pc[t] = "state_ret" /\ res[t] = StateRes(UNINITIALIZED))
    /\ [][StepOf({"get", "state"}) => (state' = state /\ data' = data)]_vars

\* on a cell nobody has begun to initialize, one thread is about to return
\* from get() and another from state()
C4_Witness ==
    /\ state = UNINITIALIZED /\ data = None
    /\ \E t \in Running({"get"}) : pc[t] = "get_ret"
    /\ \E t \in Running({"state"}) : pc[t] = "state_ret"

\* C5: a get() (also inside get_or_default) returns Err(DataUninitialized)
\* only if its load observed Uninitialized and otherwise Ok with the value of
\* the winning init; its result is Ok only once Initialized has been stored,
\* and it reads the slot only when the slot is non-empty.
C5_GetNeverSeesPartialInit ==
    \A t \in Running(GetOps) :
        /\ pc[t] = "get_read" => state = INITIALIZED /\ data # None
        /\ pc[t] = "get_ret" =>
            \/ res[t] = DataUninitialized /\ old_state[t] = UNINITIALIZED
            \/ /\ res[t].tag = "Ok"
               /\ old_state[t] # UNINITIALIZED
               /\ state = INITIALIZED
               /\ data = Some(res[t].val)
               /\ WinnerArgs = {res[t].val}

\* a get() that found the initialization in progress has waited and read
\* the slot, while the initializing call has not returned yet
C5_Witness ==
    \E t \in Running(GetOps) :
        /\ pc[t] = "get_ret"
        /\ old_state[t] = INITIALIZING
        /\ res[t].tag = "Ok"
        /\ \E u \in Running(InitOps) : pc[u] = "init_ret" /\ res[u] = OkUnit
\* C6 as stated: a state() whose load observed Initializing waits for the
\* initialization and reports INITIALIZED, and a state() reports
\* UNINITIALIZED only if its load observed Uninitialized.
C6_StateReportsInitializedAfterSpin ==
    \A t \in Running({"state"}) :
        pc[t] = "state_ret" =>
            /\ old_state[t] = INITIALIZING =>
                   state = INITIALIZED /\ res[t] = StateRes(INITIALIZED)
            /\ res[t] = StateRes(UNINITIALIZED) =>
                   old_state[t] = UNINITIALIZED

\* C7: a get_or_default() call or dereference that begins after an init or
\* init_boxed call has returned Ok(()) finds the cell Initialized, does not
\* take the path that invokes static_default and returns the value that
\* init call was given.
C7_NoDefaultAfterInit ==
    /\ [][\A t \in Threads :
            (Calls(t) /\ op'[t] \in DerefOps /\ okInits # << >>) =>
                old_state'[t] = INITIALIZED /\ pc'[t] = "get_read"]_vars
    /\ [](\A t \in Running(DerefOps) :
            old_state[t] = INITIALIZED =>
                /\ pc[t] \in {"get_read", "get_ret", "default_ret"}
                /\ pc[t] = "get_ret" => res[t].tag = "Ok"
                /\ pc[t] = "default_ret" =>
                    /\ ~res[t].dflt
                    /\ WinnerArgs = {res[t].val}
                    /\ \A i \in DOMAIN okInits : res[t] = RefRes(okInits[i], FALSE))
    /\ [](\A i, j \in DOMAIN trace :
            (i < j /\ trace[i].op = "init" /\ trace[i].res = OkUnit
                   /\ trace[j].op = "get_or_default") =>
                trace[j].res = RefRes(trace[i].arg, FALSE))

\* as in test_logger: init_boxed has succeeded, and a dereference made after
\* it is about to return the installed value
C7_Witness ==
    /\ trace = << [op |-> "init", arg |-> 1, res |-> OkUnit] >>
    /\ made[1].op = "init_boxed"
    /\ pc[MainThread] = "default_ret"
    /\ op[MainThread] = "deref"
    /\ res[MainThread] = RefRes(1, FALSE)

\* C8: a get_or_default() call or dereference whose load observes
\* Uninitialized returns the static_default() reference; such calls never
\* fail and no step of them changes the state tag or the slot, so that after
\* any number of them alone get still fails with DataUninitialized and init
\* still succeeds.
C8_DefaultLeavesCellUninitialized ==
    /\ [](\A t \in Running(DerefOps) :
            /\ pc[t] = "default_ret" => res[t].tag = "Ref"
            /\ old_state[t] = UNINITIALIZED =>
                \/ pc[t] = "get_ret" /\ res[t] = DataUninitialized
                \/ /\ pc[t] = "default_ret"
                   /\ res[t] = RefRes(StaticDefaultRef, TRUE))
    /\ [][StepOf(DerefOps) => (state' = state /\ data' = data)]_vars
    /\ [](\A j \in DOMAIN trace :
            (\A i \in 1..(j - 1) : trace[i].op = "get_or_default") =>
                /\ trace[j].op = "get_or_default" =>
                       trace[j].res = RefRes(StaticDefaultRef, TRUE)
                /\ trace[j].op = "get" => trace[j].res = DataUninitialized
                /\ trace[j].op = "init" => trace[j].res = OkUnit)

\* the fallback was handed out twice, get then failed, and an init made
\* after that is about to return Ok(())
C8_Witness ==
    /\ trace = << [op |-> "get_or_default", arg |-> NoArg,
                   res |-> RefRes(StaticDefaultRef, TRUE)],
                  [op |-> "get_or_default", arg |-> NoArg,
                   res |-> RefRes(StaticDefaultRef, TRUE)],
                  [op |-> "get", arg |-> NoArg, res |-> DataUninitialized] >>
    /\ pc[MainThread] = "init_ret"
    /\ res[MainThread] = OkUnit

\* C9: whenever the state tag is Initialized the slot holds the value passed
\* by the init call whose compare_exchange succeeded.
C9_InitializedImpliesSlotWritten ==
    state = INITIALIZED => (data # None /\ WinnerArgs = {data[1]})

\* Initialized has just been stored by a call that has not returned yet,
\* while another thread is about to read the slot
C9_Witness ==
    /\ state = INITIALIZED
    /\ \E t \in Running(InitOps) : pc[t] = "init_ret" /\ res[t] = OkUnit
    /\ \E t \in Running(GetOps) : pc[t] = "get_read"

\* C10 as stated: in every reachable state the slot is non-empty if and only
\* if the state tag is Initialized.
C10_SlotIffInitialized ==
    (data # None) <=> (state = INITIALIZED)

\* C10 amended: the slot is non-empty when the tag is Initialized and empty
\* when it is Uninitialized; while the tag is Initializing the slot is empty
\* until the winner has written it and non-empty from then on, the winner
\* being between its write and its store of Initialized.
C10_SlotFollowsState ==
    /\ state = INITIALIZED => data # None
    /\ state = UNINITIALIZED => data = None
    /\ state = INITIALIZING =>
           ((data # None) <=> (\E t \in Threads : pc[t] = "init_store"))

\* the winner has written the slot and not yet stored Initialized
C10_Witness ==
    /\ state = INITIALIZING
    /\ data # None
    /\ \E t \in Running(InitOps) : pc[t] = "init_store"

\* C11: the state tag only takes the values Uninitialized, Initializing and
\* Initialized; every step leaves it unchanged or moves it Uninitialized ->
\* Initializing or Initializing -> Initialized, so it never moves backwards,
\* never skips Initializing and never changes once it is Initialized.
C11_StateOnlyAdvances ==
    /\ [](state \in {UNINITIALIZED, INITIALIZING, INITIALIZED})
    /\ [][\/ state' = state
          \/ state = UNINITIALIZED /\ state' = INITIALIZING
          \/ state = INITIALIZING /\ state' = INITIALIZED]_vars
    /\ [][state = INITIALIZED => state' = INITIALIZED]_vars

\* the tag has made both moves: the slot was written while it was
\* Initializing, it is Initialized now and later init calls have left it so
C11_Witness ==
    /\ state = INITIALIZED
    /\ made # << >>
    /\ made[1].cas = UNINITIALIZED
    /\ made[1].state = INITIALIZING
    /\ initFailed
    /\ okInits # << >>

\* the threads inside the initializing section of init_internal: after the
\* successful compare_exchange and before the store of Initialized
SectionPcs == {"init_write", "init_store"}
InSection == {t \in Threads : pc[t] \in SectionPcs}

\* the number of calls that have entered the initializing section so far:
\* those inside it, those that left it and are about to return Ok(()), and
\* those that have returned Ok(())
Entered ==
    Cardinality(InSection)
      + Cardinality({t \in Threads : pc[t] = "init_ret" /\ res[t] = OkUnit})
      + Len(okInits)

\* C12: at any moment at most one thread is inside the initializing section
\* of init_internal, the state is Initializing while a thread is inside, and
\* over the lifetime of the cell at most one call ever enters the section: a
\* call enters only by moving the state from Uninitialized to Initializing,
\* when no call has entered before.
C12_OneInitializer ==
    /\ [](Cardinality(InSection) <= 1)
    /\ [](Entered <= 1)
    /\ [](InSection # {} => state = INITIALIZING)
    /\ [][\A t \in Threads :
            (pc[t] \notin SectionPcs /\ pc'[t] \in SectionPcs) =>
                /\ Calls(t)
                /\ state = UNINITIALIZED /\ state' = INITIALIZING
                /\ Entered = 0]_vars

\* one thread is inside the section, between its slot write and its store,
\* while another init call that lost the compare_exchange spins outside
C12_Witness ==
    \E t, u \in Threads :
        /\ pc[t] = "init_store"
        /\ pc[u] = "init_spin"
        /\ old_state[u] = INITIALIZING

\* C13: the slot of a cell created by uninit() is written at most once; the
\* write is made while the state is Initializing, into the empty slot, by the
\* call whose compare_exchange moved the state to Initializing; no step of
\* get, get_or_default or state, and no step of an init call whose
\* compare_exchange failed, writes the slot.
C13_SlotWrittenOnce ==
    /\ [](Len(made) <= 1)
    /\ [](\A i \in DOMAIN made :
            /\ made[i].state = INITIALIZING
            /\ made[i].cas = UNINITIALIZED
            /\ made[i].was = None)
    /\ [][(data' # data \/ made' # made) =>
            \E t \in Winning :
                /\ pc[t] = "init_write" /\ pc'[t] = "init_store"
                /\ state = INITIALIZING
                /\ data = None /\ data' = Some(arg[t])
                /\ made = << >> /\ Len(made') = 1]_vars
    /\ [][(data' # data \/ made' # made) =>
            /\ ~StepOf(GetOps \cup {"state"})
            /\ \A t \in Running(InitOps) \ Winning :
                  << pc[t], res[t] >> = << pc'[t], res'[t] >>]_vars

\* the slot was written once and published, a get has read it, and an init
\* call that came too late has failed and left the slot as it was
C13_Witness ==
    /\ Len(made) = 1
    /\ made[1].state = INITIALIZING
    /\ data = Some(made[1].val)
    /\ initFailed
    /\ gotOk = {made[1].val}
    /\ \E t \in Running(InitOps) : pc[t] = "init_ret" /\ res[t] = DataInitialized

\* C14: an init call whose compare_exchange observed Initializing waits and
\* does not return before the winner has stored Initialized: whenever an init
\* call is about to return Err(DataInitialized), and ever after one has
\* returned it, the state is Initialized and the slot holds the winner's
\* value; a get() that begins after a failed init has returned therefore
\* reads the slot at once and returns Ok with the winner's value, never
\* Err(DataUninitialized).
C14_LoserWaitsForWinner ==
    /\ [](\A t \in Running(InitOps) :
            (pc[t] = "init_ret" /\ res[t] = DataInitialized) =>
                /\ old_state[t] \in {INITIALIZING, INITIALIZED}
                /\ state = INITIALIZED
                /\ data # None /\ data[1] \in WinnerArgs)
    /\ [](\A t \in Running(InitOps) :
            pc[t] = "init_spin" =>
                old_state[t] = INITIALIZING /\ state # UNINITIALIZED)
    /\ [](initFailed => state = INITIALIZED /\ data # None)
    /\ [][\A t \in Threads :
            (initFailed /\ Calls(t) /\ op'[t] = "get") =>
                pc'[t] = "get_read" /\ old_state'[t] = INITIALIZED]_vars
    /\ [](\A t \in Running({"get"}) :
            (old_state[t] = INITIALIZED /\ pc[t] = "get_ret") =>
                /\ res[t].tag = "Ok"
                /\ res[t].val \in WinnerArgs
                /\ data = Some(res[t].val))

\* the loser of a race observed Initializing, waited and returned
\* Err(DataInitialized); the get() it issued next is about to return Ok with
\* the value of the winner, which has not yet returned from its init
C14_Witness ==
    \E t, u \in Threads :
        /\ initFailed
        /\ okInits = << >>
        /\ pc[u] = "init_ret" /\ res[u] = OkUnit
        /\ op[t] = "get" /\ pc[t] = "get_ret"
        /\ res[t] = Ok(arg[u])

\* C16: the closure make_data (for init_boxed the Box::leak that hands the
\* object to the cell) is run only by the call whose compare_exchange
\* succeeded, so at most once per cell; a call that ran it stores Initialized
\* and returns Ok(()); a call that returns Err(DataInitialized) took an arm
\* that does not run it, and the slot never holds a losing caller's value.
C16_OnlyWinnerMakesData ==
    /\ [](Len(made) <= 1)
    /\ [](\A i \in DOMAIN made :
            made[i].cas = UNINITIALIZED /\ made[i].val \in WinnerArgs)
    /\ [][made' # made =>
            \E t \in Winning :
                /\ pc[t] = "init_write" /\ pc'[t] = "init_store"
                /\ made' = Append(made, [op |-> op[t], val |-> arg[t],
                                         cas |-> UNINITIALIZED,
                                         state |-> state, was |-> data])]_vars
    /\ [](\A t \in Running(InitOps) :
            /\ pc[t] = "init_store" => old_state[t] = UNINITIALIZED
            /\ (pc[t] = "init_ret" /\ old_state[t] = UNINITIALIZED) =>
                  res[t] = OkUnit /\ made # << >> /\ made[1].val = arg[t]
            /\ (pc[t] = "init_ret" /\ res[t] = DataInitialized) =>
                  /\ old_state[t] # UNINITIALIZED
                  /\ t \notin Winning)
    /\ [][\A t \in Running(InitOps) \ Winning :
            pc'[t] \in {"init_spin", "init_ret", "idle"}]_vars
    /\ [](data # None => data[1] \in WinnerArgs)

\* two init_boxed calls with different objects have raced: the Box of the
\* winner was leaked into the slot, the loser is about to return
\* Err(DataInitialized) and its object was never taken
C16_Witness ==
    \E t \in Running(InitOps) :
        /\ op[t] = "init_boxed"
        /\ pc[t] = "init_ret" /\ res[t] = DataInitialized
        /\ old_state[t] = INITIALIZING
        /\ Len(made) = 1
        /\ made[1].op = "init_boxed"
        /\ made[1].val # arg[t]
        /\ data = Some(made[1].val)

\* the number of steps a call needs from the given position to its return
\* when it does not wait
StepsLeft(p, o) ==
    IF p = "idle" THEN 0
    ELSE IF p \in {"default_ret", "state_ret", "init_ret"} THEN 1
    ELSE IF p = "get_ret" THEN (IF o \in DerefOps THEN 2 ELSE 1)
    ELSE IF p = "get_read" THEN (IF o \in DerefOps THEN 3 ELSE 2)
    ELSE 4

\* the positions inside the three wait loops
SpinPcs == {"get_spin", "state_spin", "init_spin"}

\* C17: a call that begins on an Initialized cell never enters a wait loop
\* and never waits for another thread: its next step is always enabled and
\* brings it nearer to its return, get returns the stored value, init returns
\* Err(DataInitialized) and state returns INITIALIZED. A wait loop is entered
\* only by a call whose first atomic access observed Initializing.
C17_NoWaitOnceInitialized ==
    /\ [][\A t \in Threads :
            (Calls(t) /\ state = INITIALIZED) =>
                /\ old_state'[t] = INITIALIZED
                /\ pc'[t] \notin SpinPcs
                /\ StepsLeft(pc'[t], op'[t]) <= 3]_vars
    /\ [](\A t \in Threads :
            (InFlight(t) /\ old_state[t] = INITIALIZED) =>
                /\ pc[t] \notin SpinPcs
                /\ ENABLED << Continue(t) >>_vars
                /\ pc[t] = "get_ret" => res[t] = Ok(data[1])
                /\ pc[t] = "default_ret" => res[t] = RefRes(data[1], FALSE)
                /\ pc[t] = "init_ret" => res[t] = DataInitialized
                /\ pc[t] = "state_ret" => res[t] = StateRes(INITIALIZED))
    /\ [][\A t \in Threads :
            (InFlight(t) /\ old_state[t] = INITIALIZED
                /\ << pc[t], res[t] >> # << pc'[t], res'[t] >>) =>
                StepsLeft(pc'[t], op'[t]) = StepsLeft(pc[t], op[t]) - 1]_vars
    /\ [](\A t \in Threads : pc[t] \in SpinPcs => old_state[t] = INITIALIZING)
    /\ [][\A t \in Threads :
            (pc[t] \notin SpinPcs /\ pc'[t] \in SpinPcs) =>
                Calls(t) /\ state = INITIALIZING]_vars

\* on an Initialized cell a get has read the slot and an init has failed at
\* once, both begun after the initialization was complete, while no other
\* call is running
C17_Witness ==
    \E t, u \in Threads :
        /\ state = INITIALIZED
        /\ Len(okInits) = 1
        /\ old_state[t] = INITIALIZED /\ old_state[u] = INITIALIZED
        /\ op[t] = "get" /\ pc[t] = "get_ret" /\ res[t] = Ok(okInits[1])
        /\ op[u] \in InitOps /\ pc[u] = "init_ret" /\ res[u] = DataInitialized

\* C18: once an init call has won the compare_exchange (the state is
\* Initializing or Initialized) a get_or_default or dereference that begins
\* does not take the fallback: it observes Initializing or Initialized, waits
\* if it must, and returns the initialized value; the StaticDefault fallback
\* is returned only by calls whose load observed Uninitialized, before the
\* winning compare_exchange.
C18_NoFallbackAfterWinningCas ==
    /\ [][\A t \in Threads :
            (Calls(t) /\ op'[t] \in DerefOps /\ state # UNINITIALIZED) =>
                /\ old_state'[t] \in {INITIALIZING, INITIALIZED}
                /\ pc'[t] \in {"get_spin", "get_read"}]_vars
    /\ [](\A t \in Running(DerefOps) :
            old_state[t] # UNINITIALIZED =>
                /\ pc[t] \in {"get_spin", "get_read", "get_ret", "default_ret"}
                /\ pc[t] = "get_spin" => old_state[t] = INITIALIZING
                /\ pc[t] = "get_read" => state = INITIALIZED /\ data # None
                /\ pc[t] = "get_ret" =>
                      res[t].tag = "Ok" /\ res[t].val \in WinnerArgs
                /\ pc[t] = "default_ret" =>
                      /\ res[t].dflt = FALSE
                      /\ res[t].val \in WinnerArgs
                      /\ data = Some(res[t].val))
    /\ [](\A t \in Running(DerefOps) :
            (pc[t] = "default_ret" /\ res[t].dflt) =>
                /\ old_state[t] = UNINITIALIZED
                /\ res[t].val = StaticDefaultRef)

\* a dereference began while the winner was between its compare_exchange and
\* its store, waited, and is about to return the winner's value; the winner
\* has not returned yet
C18_Witness ==
    \E t, u \in Threads :
        /\ op[t] = "deref"
        /\ old_state[t] = INITIALIZING
        /\ pc[t] = "default_ret"
        /\ pc[u] = "init_ret" /\ res[u] = OkUnit
        /\ res[t] = RefRes(arg[u], FALSE)

\* C19: a cell built by OnceInit::new(v), or by Default::default() with the
\* StaticDefault value for v, is Initialized with v in its slot from the
\* start and stays so: the state is never Uninitialized or Initializing, no
\* call writes the slot, get returns Ok(v), get_or_default returns v, state
\* returns INITIALIZED and every init or init_boxed returns
\* Err(DataInitialized).
C19_NewIsInitialized ==
    /\ [](built # None =>
            /\ state = INITIALIZED
            /\ data = built
            /\ made = << >>
            /\ okInits = << >>
            /\ gotOk \subseteq {built[1]}
            /\ \A t \in Threads :
                InFlight(t) =>
                    /\ old_state[t] = INITIALIZED
                    /\ pc[t] \in {"get_read", "get_ret", "default_ret",
                                  "state_ret", "init_ret"}
                    /\ pc[t] = "get_ret" => res[t] = Ok(built[1])
                    /\ pc[t] = "default_ret" => res[t] = RefRes(built[1], FALSE)
                    /\ pc[t] = "state_ret" => res[t] = StateRes(INITIALIZED)
                    /\ pc[t] = "init_ret" => res[t] = DataInitialized
            /\ \A i \in DOMAIN trace :
                /\ trace[i].op = "get" => trace[i].res = Ok(built[1])
                /\ trace[i].op = "get_or_default" =>
                      trace[i].res = RefRes(built[1], FALSE)
                /\ trace[i].op = "state" => trace[i].res = StateRes(INITIALIZED)
                /\ trace[i].op = "init" => trace[i].res = DataInitialized)
    /\ [][built # None => state' = state /\ data' = data /\ built' = built]_vars

\* on a cell built by new(v) the first three calls have been init with
\* another value, get and state, and have returned Err(DataInitialized),
\* Ok(v) and INITIALIZED; an init_boxed is about to fail as well
C19_Witness ==
    \E v \in Refs, w \in Values :
        /\ built = Some(v)
        /\ w # v
        /\ data = Some(v)
        /\ trace = << [op |-> "init", arg |-> w, res |-> DataInitialized],
                      [op |-> "get", arg |-> NoArg, res |-> Ok(v)],
                      [op |-> "state", arg |-> NoArg,
                       res |-> StateRes(INITIALIZED)] >>
        /\ op[MainThread] = "init_boxed"
        /\ pc[MainThread] = "init_ret"
        /\ res[MainThread] = DataInitialized

\* C15: every wait loop ends. When the threads that are inside a call keep
\* being scheduled, the winner of the compare_exchange among them, a get,
\* get_or_default, state or init call that observed Initializing and waits
\* eventually returns, and once an init call has been made the cell
\* eventually is Initialized and remains so for ever.
C15_SpinWaitTerminates ==
    /\ \A t \in Threads : (pc[t] \in SpinPcs) ~> (pc[t] = "idle")
    /\ \A t \in Threads : (pc[t] \in SpinPcs) ~> (state = INITIALIZED)
    /\ (state # UNINITIALIZED) ~> [](state = INITIALIZED)

\* a state() call observed Initializing, waited until the winner stored
\* Initialized, left its loop and is about to return
C15_Witness ==
    \E t \in Threads :
        /\ op[t] = "state"
        /\ old_state[t] = INITIALIZING
        /\ pc[t] = "state_ret"
        /\ state = INITIALIZED

====
